---- MODULE Spec2Model ----
(***************************************************************************)
(* Data-access facade of the portfolio platform (src/utils/data.py):       *)
(* load_data / save_data over a relational store (SQLAlchemy session) and  *)
(* the legacy flat-file document data.json.                                *)
(*                                                                         *)
(* Representation.                                                         *)
(*  - A Python dict is a function whose DOMAIN is its key set; an absent   *)
(*    key is an absent element of the DOMAIN.                              *)
(*  - A table row is a function too; a NULL column is an absent key.       *)
(*  - The JSON-ish mappings contact/social/settings are sets of            *)
(*    <<key, value>> pairs; {} is the empty mapping.                       *)
(*  - Lists are sequences.                                                 *)
(*  - Workspace.id is represented by the unique slug.                      *)
(*  - A raise is the exc field of an operation's result; the fault that    *)
(*    makes a call raise is an input of the action.                        *)
(***************************************************************************)
EXTENDS Integers, Sequences, FiniteSets, TLC

VARIABLES workspaces, skills, projects, clients, messages, services,
          visitor_logs, notification_settings, users, data_json, last, ops,
          writers

vars == <<workspaces, skills, projects, clients, messages, services,
          visitor_logs, notification_settings, users, data_json, last, ops,
          writers>>

(***************************************************************************)
(* Python values                                                           *)
(***************************************************************************)
\* Python None in a string-typed position.
None == "None"

\* the empty dict {} / "no row" (falsy)
EmptyDict == [k \in {} |-> ""]

\* no save_data_to_json call in progress (writers holds the calls that run
\* step by step against the shared document)
NoWriters == <<>>

\* d.get(k, default)
Get(d, k, default) == IF k \in DOMAIN d THEN d[k] ELSE default

\* d[k] = v
Put(d, k, v) == [x \in (DOMAIN d) \cup {k} |-> IF x = k THEN v ELSE d[x]]

\* d.update(e)
Update(d, e) == [x \in (DOMAIN d) \cup (DOMAIN e) |-> IF x \in DOMAIN e THEN e[x] ELSE d[x]]

\* `x or default` on a string-typed value (None and '' are falsy)
StrOr(x, default) == IF x = None \/ x = "" THEN default ELSE x

\* `row.col or default` on a nullable string column
ColStrOr(row, col, default) == IF col \in DOMAIN row THEN StrOr(row[col], default) ELSE default

\* `row.col or default` on a nullable JSON mapping column ({} is falsy)
ColMapOr(row, col, default) == IF col \in DOMAIN row /\ row[col] # {} THEN row[col] ELSE default

\* `row.col or default` on a nullable JSON list column ([] is falsy)
ColListOr(row, col, default) == IF col \in DOMAIN row /\ row[col] # <<>> THEN row[col] ELSE default

\* row.col of a nullable string column whose None is passed through
ColOrNone(row, col) == IF col \in DOMAIN row THEN row[col] ELSE None

\* whether mapping m (a set of <<key, value>> pairs) has key k
HasKey(m, k) == \E p \in m : p[1] = k

\* [f(x) for x in s]
RECURSIVE MapSeq(_, _)
MapSeq(F(_), s) == IF s = <<>> THEN <<>> ELSE <<F(Head(s))>> \o MapSeq(F, Tail(s))

\* the elements of a sequence
Range(s) == {s[i] : i \in DOMAIN s}

(***************************************************************************)
(* Bounds and input universes                                              *)
(***************************************************************************)
\* the usernames requests are made for; NoUser is the falsy username
Usernames == {"alice", "bob"}
NoUser == ""

DefaultTheme == "luxury-gold"
DefaultSettings == {<<"theme", DefaultTheme>>}

\* datetimes are <<year, month, day, hour, minute, second>>
UtcNow == <<2026, 11, 4, 12, 0, 0>>
Yesterday == <<2026, 11, 3, 9, 30, 0>>

\* dt.date()
DateOf(dt) == <<dt[1], dt[2], dt[3]>>

\* dt.strftime('%Y-%m-%d %H:%M:%S') keeps every component,
\* dt.strftime('%Y-%m-%d') keeps the date components only
StrfDateTime(dt) == [fmt |-> "%Y-%m-%d %H:%M:%S", y |-> dt[1], m |-> dt[2], d |-> dt[3],
                     H |-> dt[4], M |-> dt[5], S |-> dt[6]]
StrfDate(dt) == [fmt |-> "%Y-%m-%d", y |-> dt[1], m |-> dt[2], d |-> dt[3]]

\* Python None in a formatted-date position
NoneDate == [fmt |-> "None"]

\* row.col.strftime(...) if row.col else None
ColDateTime(row, col) == IF col \in DOMAIN row THEN StrfDateTime(row[col]) ELSE NoneDate
ColDate(row, col) == IF col \in DOMAIN row THEN StrfDate(row[col]) ELSE NoneDate

(***************************************************************************)
(* Rows the relational store starts with.  Child rows exist only for the   *)
(* workspaces that exist.                                                  *)
(***************************************************************************)
InitialWorkspace(u) ==
  IF u = "alice"
  THEN [slug |-> "alice", name |-> "Alice", title |-> "Engineer", description |-> "hello",
        about |-> "about alice", photo |-> "alice.png", plan |-> "pro",
        contact |-> {<<"email", "alice@example.org">>}, social |-> {<<"github", "alice">>},
        settings |-> {<<"theme", "dark">>}]
  ELSE [slug |-> u, name |-> u, description |-> "", plan |-> "pro"]

AllSkillRows ==
  << [workspace_id |-> "alice", name |-> "python", level |-> 80],
     [workspace_id |-> "bob", name |-> "design", level |-> 70],
     [workspace_id |-> "alice", name |-> "sql", level |-> 60] >>

AllProjectRows ==
  << [id |-> 1, workspace_id |-> "alice", title |-> "Shop", description |-> "a shop",
      technologies |-> <<"flask">>, project_type |-> "portfolio", badge |-> "showcase",
      created_at |-> Yesterday],
     [id |-> 2, workspace_id |-> "alice", title |-> "Need a logo", project_type |-> "request",
      request_budget_min |-> "100", request_deadline |-> UtcNow],
     [id |-> 3, workspace_id |-> "bob", title |-> "Blog"] >>

AllClientRows ==
  << [id |-> 1, workspace_id |-> "alice", name |-> "ACME", email |-> "acme@example.org",
      status |-> "active", deadline |-> UtcNow, created_at |-> Yesterday],
     [id |-> 2, workspace_id |-> "bob", name |-> "Initech"] >>

AllMessageRows ==
  << [id |-> 1, workspace_id |-> "alice", name |-> "Vic", email |-> "vic@example.org",
      message |-> "hi alice", is_read |-> FALSE, category |-> "portfolio", created_at |-> Yesterday],
     [id |-> 2, workspace_id |-> "bob", name |-> "Wes", email |-> "wes@example.org",
      message |-> "hi bob", is_read |-> TRUE] >>

AllServiceRows ==
  << [id |-> 1, workspace_id |-> "alice", title |-> "Consulting", pricing_type |-> "hourly",
      price_min |-> "50", currency |-> "EUR", is_active |-> TRUE, is_featured |-> FALSE,
      created_at |-> Yesterday],
     [id |-> 2, workspace_id |-> "bob", title |-> "Logo design", is_active |-> TRUE,
      is_featured |-> TRUE] >>

AllVisitorLogRows ==
  << [workspace_id |-> "alice", ip_address |-> "10.0.0.1", created_at |-> UtcNow],
     [workspace_id |-> "alice", ip_address |-> "10.0.0.1", created_at |-> Yesterday],
     [workspace_id |-> "bob", ip_address |-> "10.0.0.2", created_at |-> UtcNow] >>

AllNotificationRows ==
  << [workspace_id |-> "alice", telegram_bot_token |-> "tok-a", telegram_chat_id |-> "chat-a",
      telegram_configured_at |-> Yesterday],
     [workspace_id |-> "bob", telegram_bot_token |-> ""] >>

UserRows ==
  << [id |-> 1, username |-> "admin", email |-> "admin@example.org", password_hash |-> "h0",
      role |-> "admin", is_demo |-> FALSE, is_verified |-> TRUE, must_change_password |-> FALSE],
     [id |-> 2, username |-> "alice", email |-> "alice@example.org", password_hash |-> "h1",
      role |-> "user", is_demo |-> FALSE, is_verified |-> TRUE, must_change_password |-> FALSE,
      created_at |-> Yesterday],
     [id |-> 3, username |-> "bob", email |-> "bob@example.org", password_hash |-> "h2",
      role |-> "user", is_demo |-> TRUE, is_verified |-> FALSE, must_change_password |-> TRUE] >>

\* the rows of a table that belong to one of the workspaces W
RowsOf(rows, W) == SelectSeq(rows, LAMBDA r : r.workspace_id \in W)

\* the workspace rows of the workspaces W, in a fixed order
WorkspaceRows(W) ==
  (IF "alice" \in W THEN <<InitialWorkspace("alice")>> ELSE <<>>)
  \o (IF "bob" \in W THEN <<InitialWorkspace("bob")>> ELSE <<>>)

(***************************************************************************)
(* data.json: [exists, content].  The documents the file can start with.   *)
(***************************************************************************)
NoFile == [exists |-> FALSE, content |-> EmptyDict]

LegacyRecord ==
  [name |-> "Alice (legacy)", title |-> "Legacy title",
   skills |-> <<[name |-> "php", level |-> 40]>>,
   projects |-> << [id |-> 1, title |-> "Old"],
                   [id |-> 2, title |-> "Wanted", project_type |-> "request"],
                   [id |-> 3, title |-> "New", project_type |-> "portfolio", badge |-> "custom"] >>,
   settings |-> {<<"theme", "ocean">>}]

\* a legacy record with neither projects nor settings
BareRecord == [name |-> "Bob (legacy)"]

InitialFiles ==
  { NoFile,
    [exists |-> TRUE, content |-> [portfolios |-> ("alice" :> LegacyRecord) @@ ("bob" :> BareRecord)]] }

(***************************************************************************)
(* The relational store as one value: the tables a session works on.       *)
(***************************************************************************)
Tables ==
  [workspaces |-> workspaces, skills |-> skills, projects |-> projects, clients |-> clients,
   messages |-> messages, services |-> services, visitor_logs |-> visitor_logs,
   notification_settings |-> notification_settings, users |-> users]

\* filter_by_workspace without its workspace criterion
filter_by_workspace_all(rows, w) == rows

\* query.filter_by(workspace_id=w).all(), also the relationship workspace.<children>
filter_by_workspace(rows, w) == SelectSeq(rows, LAMBDA r : r.workspace_id = w)

\* query.first(): the first row or no row
first(rows) == IF rows = <<>> THEN EmptyDict ELSE Head(rows)

\* Workspace.query.filter_by(slug=username).first()
get_workspace_by_username(T, username) ==
  first(SelectSeq(T.workspaces, LAMBDA w : w.slug = username))

(***************************************************************************)
(* View materializer                                                       *)
(***************************************************************************)
\* datetime.isoformat()
IsoFormat(dt) == [fmt |-> "iso", y |-> dt[1], m |-> dt[2], d |-> dt[3],
                  H |-> dt[4], M |-> dt[5], S |-> dt[6]]

\* project_to_dict giving every project the request keys, null for a non-request
project_to_dict_request_keys_always(project) ==
  [id |-> project.id,
   title |-> project.title,
   description |-> ColStrOr(project, "description", ""),
   technologies |-> ColListOr(project, "technologies", <<>>),
   project_type |-> ColStrOr(project, "project_type", "portfolio"),
   badge |-> ColStrOr(project, "badge", ""),
   created_at |-> ColDateTime(project, "created_at"),
   request_budget_min |-> ColOrNone(project, "request_budget_min"),
   request_budget_max |-> ColOrNone(project, "request_budget_max"),
   request_deadline |-> ColDate(project, "request_deadline"),
   request_status |-> ColStrOr(project, "request_status", "open")]

project_to_dict(project) ==
  LET result ==
        [id |-> project.id,
         title |-> project.title,
         description |-> ColStrOr(project, "description", ""),
         technologies |-> ColListOr(project, "technologies", <<>>),
         project_type |-> ColStrOr(project, "project_type", "portfolio"),
         badge |-> ColStrOr(project, "badge", ""),
         created_at |-> ColDateTime(project, "created_at")]
  IN IF ColOrNone(project, "project_type") = "request"
     THEN Update(result,
                 [request_budget_min |-> ColOrNone(project, "request_budget_min"),
                  request_budget_max |-> ColOrNone(project, "request_budget_max"),
                  request_deadline |-> ColDate(project, "request_deadline"),
                  request_status |-> ColStrOr(project, "request_status", "open")])
     ELSE result

client_to_dict(client) ==
  [id |-> client.id,
   name |-> client.name,
   email |-> ColStrOr(client, "email", ""),
   status |-> ColStrOr(client, "status", "lead"),
   deadline |-> ColDate(client, "deadline"),
   created_at |-> ColDateTime(client, "created_at")]

message_to_dict(message) ==
  [id |-> message.id,
   name |-> message.name,
   email |-> message.email,
   message |-> message.message,
   read |-> message.is_read,
   category |-> ColStrOr(message, "category", "portfolio"),
   date |-> ColDateTime(message, "created_at")]

service_to_dict(service) ==
  [id |-> service.id,
   title |-> service.title,
   pricing_type |-> ColStrOr(service, "pricing_type", "custom"),
   price_min |-> ColOrNone(service, "price_min"),
   currency |-> ColStrOr(service, "currency", "USD"),
   is_active |-> service.is_active,
   is_featured |-> service.is_featured,
   created_at |-> IF "created_at" \in DOMAIN service THEN IsoFormat(service.created_at) ELSE NoneDate]

user_to_dict(user) ==
  [id |-> user.id,
   username |-> user.username,
   email |-> user.email,
   password_hash |-> user.password_hash,
   role |-> user.role,
   is_demo |-> user.is_demo,
   is_verified |-> user.is_verified,
   must_change_password |-> user.must_change_password,
   created_at |-> ColDateTime(user, "created_at")]

get_default_portfolio_data ==
  [name |-> "",
   title |-> "Web Developer & Designer",
   description |-> "Welcome to my professional portfolio.",
   skills |-> <<>>,
   projects |-> <<>>,
   services |-> <<>>,
   messages |-> <<>>,
   clients |-> <<>>,
   settings |-> DefaultSettings,
   visitors |-> [total |-> 0, today |-> <<>>, unique_ips |-> {}]]

\* {'name': s.name, 'level': s.level}
skill_to_dict(s) == [name |-> s.name, level |-> s.level]

\* the entry of visitors.today for a log row
visit_to_dict(log) ==
  [ip |-> log.ip_address, timestamp |-> StrfDateTime(log.created_at), date |-> StrfDate(log.created_at)]

\* the notifications mapping of a workspace
notifications_of(T, w) ==
  LET notif_settings == first(filter_by_workspace(T.notification_settings, w))
  IN IF notif_settings # EmptyDict /\ ColStrOr(notif_settings, "telegram_bot_token", "") # ""
     THEN [telegram |-> [bot_token |-> notif_settings.telegram_bot_token,
                         chat_id |-> ColOrNone(notif_settings, "telegram_chat_id"),
                         configured_at |-> ColDateTime(notif_settings, "telegram_configured_at")]]
     ELSE EmptyDict

\* unique_ips is list(set(...)): its order is not determined, so it is kept a set
workspace_to_dict(T, workspace) ==
  IF workspace = EmptyDict THEN get_default_portfolio_data
  ELSE
    LET w == workspace.slug
        logs == filter_by_workspace(T.visitor_logs, w)
    IN [username |-> workspace.slug,
        name |-> workspace.name,
        title |-> ColStrOr(workspace, "title", ""),
        description |-> ColStrOr(workspace, "description", ""),
        about |-> ColStrOr(workspace, "about", ""),
        photo |-> ColStrOr(workspace, "photo", ""),
        skills |-> MapSeq(skill_to_dict, filter_by_workspace(T.skills, w)),
        projects |-> MapSeq(project_to_dict, filter_by_workspace(T.projects, w)),
        clients |-> MapSeq(client_to_dict, filter_by_workspace(T.clients, w)),
        messages |-> MapSeq(message_to_dict, filter_by_workspace(T.messages, w)),
        services |-> MapSeq(service_to_dict, filter_by_workspace(T.services, w)),
        contact |-> ColMapOr(workspace, "contact", {}),
        social |-> ColMapOr(workspace, "social", {}),
        settings |-> ColMapOr(workspace, "settings", DefaultSettings),
        visitors |-> [total |-> Len(logs),
                      today |-> MapSeq(visit_to_dict,
                                       SelectSeq(logs, LAMBDA l : DateOf(l.created_at) = DateOf(UtcNow))),
                      unique_ips |-> {logs[i].ip_address : i \in DOMAIN logs}],
        notifications |-> notifications_of(T, w)]

\* the per-workspace summary of the global view
summary_of(ws) ==
  [name |-> ws.name,
   title |-> ColStrOr(ws, "title", ""),
   description |-> ColStrOr(ws, "description", ""),
   about |-> ColStrOr(ws, "about", ""),
   photo |-> ColStrOr(ws, "photo", ""),
   username |-> ws.slug,
   is_verified |-> FALSE]

\* the global view: users list and portfolios dict
global_view(T) ==
  [users |-> MapSeq(user_to_dict, T.users),
   portfolios |-> [u \in {T.workspaces[i].slug : i \in DOMAIN T.workspaces} |->
                     summary_of(get_workspace_by_username(T, u))]]

(***************************************************************************)
(* Flat-file read path                                                     *)
(***************************************************************************)
\* utils.badges.determine_badge: the badge derived from a project type
determine_badge(project_type) ==
  CASE project_type = "portfolio" -> "badge-of-portfolio"
    [] project_type = "request" -> "badge-of-request"
    [] OTHER -> "badge-of-other"

\* backfill_project deriving every badge from 'portfolio'
backfill_project_portfolio_badge(project) ==
  LET p1 == IF "project_type" \notin DOMAIN project
            THEN Put(project, "project_type", "portfolio") ELSE project
  IN IF "badge" \notin DOMAIN p1
     THEN Put(p1, "badge", determine_badge("portfolio"))
     ELSE p1

\* the back-fill of one legacy project
backfill_project(project) ==
  LET p1 == IF "project_type" \notin DOMAIN project
            THEN Put(project, "project_type", "portfolio") ELSE project
  IN IF "badge" \notin DOMAIN p1
     THEN Put(p1, "badge", determine_badge(Get(p1, "project_type", "portfolio")))
     ELSE p1

\* json_fail: reading data.json raises (unreadable or malformed document)
load_data_from_json(file, username, json_fail) ==
  IF file.exists /\ json_fail THEN EmptyDict
  ELSE
    LET data == IF file.exists THEN file.content ELSE EmptyDict
    IN IF username # NoUser
       THEN LET portfolios == Get(data, "portfolios", EmptyDict)
            IN IF username \in DOMAIN portfolios
               THEN LET user_data == portfolios[username]
                    IN IF "projects" \in DOMAIN user_data
                       THEN Put(user_data, "projects", MapSeq(backfill_project, user_data.projects))
                       ELSE user_data
               ELSE get_default_portfolio_data
       ELSE data

(***************************************************************************)
(* load_data.  fail is the point of the relational path that raises:       *)
(* "none", "lookup" (the query) or "materialize" (workspace_to_dict).      *)
(* The result is [exc, value, json] where json tells whether the flat-file *)
(* store was consulted.                                                    *)
(***************************************************************************)
LoadFailPoints == {"none", "lookup", "materialize"}

\* load_data_try consulting the flat-file store before the relational store
load_data_try_json_first(T, file, username, fail, json_fail) ==
  IF fail = "lookup" THEN [exc |-> TRUE, value |-> EmptyDict, json |-> FALSE]
  ELSE IF username # NoUser
  THEN [exc |-> FALSE, value |-> load_data_from_json(file, username, json_fail), json |-> TRUE]
  ELSE [exc |-> FALSE, value |-> global_view(T), json |-> FALSE]

\* the try block of load_data: [exc, value, json]
load_data_try(T, file, username, fail, json_fail) ==
  IF fail = "lookup" THEN [exc |-> TRUE, value |-> EmptyDict, json |-> FALSE]
  ELSE IF username # NoUser
  THEN LET workspace == get_workspace_by_username(T, username)
       IN IF workspace # EmptyDict
          THEN IF fail = "materialize"
               THEN [exc |-> TRUE, value |-> EmptyDict, json |-> FALSE]
               ELSE [exc |-> FALSE, value |-> workspace_to_dict(T, workspace), json |-> FALSE]
          ELSE [exc |-> FALSE, value |-> load_data_from_json(file, username, json_fail), json |-> TRUE]
  ELSE [exc |-> FALSE, value |-> global_view(T), json |-> FALSE]

\* load_data without its except clause
load_data_propagates(T, file, username, fail, json_fail) ==
  load_data_try(T, file, username, fail, json_fail)

load_data(T, file, username, fail, json_fail) ==
  LET body == load_data_try(T, file, username, fail, json_fail)
  IN IF body.exc
     THEN [exc |-> FALSE, value |-> load_data_from_json(file, username, json_fail), json |-> TRUE]
     ELSE body

(***************************************************************************)
(* Flat-file write path.  backup_fail: create_backup raises.  json_fail:   *)
(* reading the prior document or opening the file for writing raises.      *)
(* The result is [exc, file, backup, wrote]; backup is "none", "taken" or  *)
(* "failed".                                                               *)
(***************************************************************************)
\* utils.helpers.create_backup(manual=False) under the auto_backup guard
auto_backup_step(file, auto_backup, backup_fail) ==
  IF auto_backup /\ file.exists
  THEN IF backup_fail THEN "failed" ELSE "taken"
  ELSE "none"

\* merged_document building the portfolios mapping anew for the saved username
merged_document_only_own(all_data, user_data, username) ==
  IF username # NoUser
  THEN Put(all_data, "portfolios", Put(EmptyDict, username, user_data))
  ELSE Update(all_data, user_data)

\* the document save_data_to_json writes
merged_document(all_data, user_data, username) ==
  IF username # NoUser
  THEN LET with_portfolios == IF "portfolios" \notin DOMAIN all_data
                              THEN Put(all_data, "portfolios", EmptyDict) ELSE all_data
       IN Put(with_portfolios, "portfolios", Put(with_portfolios.portfolios, username, user_data))
  ELSE Update(all_data, user_data)

\* save_data_to_json whose snapshot failure aborts the write
save_data_to_json_backup_fatal(file, user_data, username, auto_backup, backup_fail, json_fail) ==
  LET backup == auto_backup_step(file, auto_backup, backup_fail)
  IN IF json_fail \/ backup = "failed"
     THEN [exc |-> FALSE, file |-> file, backup |-> backup, wrote |-> FALSE]
     ELSE LET all_data == IF file.exists THEN file.content ELSE EmptyDict
          IN [exc |-> FALSE,
              file |-> [exists |-> TRUE, content |-> merged_document(all_data, user_data, username)],
              backup |-> backup,
              wrote |-> TRUE]

save_data_to_json(file, user_data, username, auto_backup, backup_fail, json_fail) ==
  LET backup == auto_backup_step(file, auto_backup, backup_fail)
  IN IF json_fail
     THEN [exc |-> FALSE, file |-> file, backup |-> backup, wrote |-> FALSE]
     ELSE LET all_data == IF file.exists THEN file.content ELSE EmptyDict
          IN [exc |-> FALSE,
              file |-> [exists |-> TRUE, content |-> merged_document(all_data, user_data, username)],
              backup |-> backup,
              wrote |-> TRUE]

(***************************************************************************)
(* Relational write path.  A session result is [exc, committed, session]:  *)
(* committed is what the database holds, session what the open transaction *)
(* sees.  fail is the point that raises: "lookup" (the query of            *)
(* get_or_create_workspace), "create" (its commit), "skills" (the delete   *)
(* of the old Skill rows), "commit" (the final commit) or "none".          *)
(***************************************************************************)
SaveFailPoints == {"none", "lookup", "create", "skills", "commit"}

\* replace the row of workspace w
replace_workspace(rows, row) ==
  [i \in DOMAIN rows |-> IF rows[i].slug = row.slug THEN row ELSE rows[i]]

get_or_create_workspace(T, username, name, fail) ==
  IF fail = "lookup"
  THEN [exc |-> TRUE, committed |-> T, session |-> T, workspace |-> EmptyDict]
  ELSE LET workspace == get_workspace_by_username(T, username)
       IN IF workspace # EmptyDict
          THEN [exc |-> FALSE, committed |-> T, session |-> T, workspace |-> workspace]
          ELSE LET created == [name |-> StrOr(name, username), slug |-> username,
                               description |-> "", plan |-> "pro"]
                   S == [T EXCEPT !.workspaces = Append(@, created)]
               IN IF fail = "create"
                  THEN [exc |-> TRUE, committed |-> T, session |-> S, workspace |-> created]
                  ELSE [exc |-> FALSE, committed |-> S, session |-> S, workspace |-> created]

\* the assignments to the workspace's fields, made only for the keys the view has
updated_workspace_keep_absent(workspace, user_data) ==
  LET given == DOMAIN user_data \cap
                 {"name", "title", "description", "photo", "about", "contact", "social", "settings"}
  IN Update(workspace, [k \in given |-> user_data[k]])

\* the assignments to the workspace's fields
updated_workspace(workspace, user_data) ==
  Update(workspace,
         [name |-> Get(user_data, "name", workspace.name),
          title |-> Get(user_data, "title", ""),
          description |-> Get(user_data, "description", ""),
          photo |-> Get(user_data, "photo", ""),
          about |-> Get(user_data, "about", ""),
          contact |-> Get(user_data, "contact", {}),
          social |-> Get(user_data, "social", {}),
          settings |-> Get(user_data, "settings", DefaultSettings)])

\* Skill(workspace_id=..., name=skill_data.get('name', ''), level=skill_data.get('level', 50))
new_skill(w, skill_data) ==
  [workspace_id |-> w, name |-> Get(skill_data, "name", ""), level |-> Get(skill_data, "level", 50)]

\* replaced_skills without the delete of the old rows
replaced_skills_append_only(rows, w, skill_list) ==
  rows \o [i \in DOMAIN skill_list |-> new_skill(w, skill_list[i])]

\* delete the workspace's Skill rows and add the ones of the view
replaced_skills(rows, w, skill_list) ==
  SelectSeq(rows, LAMBDA r : r.workspace_id # w)
  \o [i \in DOMAIN skill_list |-> new_skill(w, skill_list[i])]

\* save_data_try that also replaces the workspace's Project rows by the view's list
save_data_try_sync_projects(T, user_data, username, fail) ==
  LET g == get_or_create_workspace(T, username, Get(user_data, "name", None), fail)
  IN IF g.exc THEN [exc |-> TRUE, committed |-> g.committed, session |-> g.session]
     ELSE
       LET w == g.workspace.slug
           S1 == [g.session EXCEPT
                    !.workspaces = replace_workspace(@, updated_workspace(g.workspace, user_data)),
                    !.projects = SelectSeq(@, LAMBDA r : r.workspace_id # w)]
       IN IF "skills" \in DOMAIN user_data /\ fail = "skills"
          THEN [exc |-> TRUE, committed |-> g.committed, session |-> S1]
          ELSE
            LET S2 == IF "skills" \in DOMAIN user_data
                      THEN [S1 EXCEPT !.skills = replaced_skills(@, w, user_data.skills)]
                      ELSE S1
            IN IF fail = "commit"
               THEN [exc |-> TRUE, committed |-> g.committed, session |-> S2]
               ELSE [exc |-> FALSE, committed |-> S2, session |-> S2]

\* the try block of save_data for a username: [exc, committed, session]
save_data_try(T, user_data, username, fail) ==
  LET g == get_or_create_workspace(T, username, Get(user_data, "name", None), fail)
  IN IF g.exc THEN [exc |-> TRUE, committed |-> g.committed, session |-> g.session]
     ELSE
       LET w == g.workspace.slug
           S1 == [g.session EXCEPT
                    !.workspaces = replace_workspace(@, updated_workspace(g.workspace, user_data))]
       IN IF "skills" \in DOMAIN user_data /\ fail = "skills"
          THEN [exc |-> TRUE, committed |-> g.committed, session |-> S1]
          ELSE
            LET S2 == IF "skills" \in DOMAIN user_data
                      THEN [S1 EXCEPT !.skills = replaced_skills(@, w, user_data.skills)]
                      ELSE S1
            IN IF fail = "commit"
               THEN [exc |-> TRUE, committed |-> g.committed, session |-> S2]
               ELSE [exc |-> FALSE, committed |-> S2, session |-> S2]

\* a rollback that keeps the pending changes
rollback_noop(r) == r

\* db.session.rollback(): the session is the committed state again
rollback(r) == [r EXCEPT !.session = r.committed]

(***************************************************************************)
(* save_data.  The result is [exc, tables, file, relational_writes,        *)
(* rolled_back, backup, wrote].                                            *)
(***************************************************************************)
save_data(T, file, user_data, username, auto_backup, fail, backup_fail, json_fail) ==
  IF username = NoUser
  THEN LET j == save_data_to_json(file, user_data, username, auto_backup, backup_fail, json_fail)
       IN [exc |-> j.exc, tables |-> T, file |-> j.file, relational_writes |-> 0,
           rolled_back |-> FALSE, backup |-> j.backup, wrote |-> j.wrote]
  ELSE LET body == save_data_try(T, user_data, username, fail)
       IN IF body.exc
          THEN LET r == rollback(body)
                   j == save_data_to_json(file, user_data, username, auto_backup,
                                          backup_fail, json_fail)
               IN [exc |-> j.exc, tables |-> r.session, file |-> j.file, relational_writes |-> 1,
                   rolled_back |-> TRUE, backup |-> j.backup, wrote |-> j.wrote]
          ELSE [exc |-> FALSE, tables |-> body.committed, file |-> file, relational_writes |-> 1,
                rolled_back |-> FALSE, backup |-> "none", wrote |-> FALSE]

(***************************************************************************)
(* The views callers save.                                                 *)
(***************************************************************************)
\* every portfolio-level key, a theme, skills, and lists of the other entities
ViewFull ==
  [name |-> "Alice Liddell", title |-> "Developer", description |-> "I build things",
   photo |-> "me.png", about |-> "about me",
   contact |-> {<<"email", "me@example.org">>}, social |-> {<<"github", "me">>},
   settings |-> {<<"theme", "ocean">>},
   skills |-> <<[name |-> "python", level |-> 90], [name |-> "rust", level |-> 30]>>,
   projects |-> <<[id |-> 7, title |-> "From the view"]>>,
   clients |-> <<[id |-> 7, name |-> "From the view"]>>,
   messages |-> <<>>,
   services |-> <<[id |-> 7, title |-> "From the view"]>>]

\* a partial view: neither name nor skills nor settings
ViewPartial == [title |-> "Only a title"]

\* an empty settings mapping, an empty name, an empty skills list
ViewEmptySettings == [name |-> "", title |-> "T2", settings |-> {}, skills |-> <<>>]

\* a settings mapping without a theme, a skill without a level
ViewNoTheme ==
  [name |-> "Al", settings |-> {<<"lang", "en">>},
   skills |-> <<[name |-> "go"]>>,
   projects |-> <<[id |-> 8, title |-> "Typed", project_type |-> "request"]>>]

Views == {ViewFull, ViewPartial, ViewEmptySettings, ViewNoTheme}

\* the data saved without a username (global data)
GlobalViews == {[users |-> <<[username |-> "admin", role |-> "admin"]>>]}

\* the views saved for each username; the second tenant saves one view
ViewsFor(username) ==
  IF username = NoUser THEN GlobalViews
  ELSE IF username = "alice" THEN Views
  ELSE {ViewFull}

\* the number of facade calls of a run
MaxOps == 2

(***************************************************************************)
(* Initial state                                                           *)
(***************************************************************************)
Init ==
  \E W \in SUBSET Usernames :
    /\ workspaces = WorkspaceRows(W)
    /\ skills = RowsOf(AllSkillRows, W)
    /\ projects = RowsOf(AllProjectRows, W)
    /\ clients = RowsOf(AllClientRows, W)
    /\ messages = RowsOf(AllMessageRows, W)
    /\ services = RowsOf(AllServiceRows, W)
    /\ visitor_logs = RowsOf(AllVisitorLogRows, W)
    /\ notification_settings = RowsOf(AllNotificationRows, W)
    /\ users = UserRows
    /\ data_json \in InitialFiles
    /\ last = [op |-> "init"]
    /\ ops = 0
    /\ writers = NoWriters

(***************************************************************************)
(* Actions                                                                 *)
(***************************************************************************)
\* whether load_data(username) with these faults reads data.json
LoadReadsJson(username, fail) ==
  \/ fail # "none"
  \/ username # NoUser /\ get_workspace_by_username(Tables, username) = EmptyDict

\* a fault is an input only where the call it breaks is made
LoadData ==
  \E username \in Usernames \cup {NoUser}, fail \in LoadFailPoints, json_fail \in BOOLEAN :
    /\ ops < MaxOps
    /\ fail = "materialize" =>
         username # NoUser /\ get_workspace_by_username(Tables, username) # EmptyDict
    /\ json_fail => LoadReadsJson(username, fail) /\ data_json.exists
    /\ LET r == load_data(Tables, data_json, username, fail, json_fail)
       IN last' = [op |-> "load_data", username |-> username, fail |-> fail,
                   json_fail |-> json_fail, exc |-> r.exc, value |-> r.value, json |-> r.json]
    /\ ops' = ops + 1
    /\ UNCHANGED writers
    /\ UNCHANGED <<workspaces, skills, projects, clients, messages, services,
                   visitor_logs, notification_settings, users, data_json>>

\* whether save_data(user_data, username) with this fault reaches the flat-file path
SaveWritesJson(username, fail) == username = NoUser \/ fail # "none"

\* The flat-file path gets the same arguments whichever relational call raised,
\* so its own inputs (auto_backup off, a failing snapshot, a failing document
\* access) are varied for the flat-file-only save and for one relational failure
\* point, the final commit.
SaveData ==
  \E username \in Usernames \cup {NoUser}, user_data \in Views \cup GlobalViews,
     auto_backup \in BOOLEAN, fail \in SaveFailPoints, backup_fail \in BOOLEAN,
     json_fail \in BOOLEAN :
    /\ ops < MaxOps
    /\ user_data \in ViewsFor(username)
    /\ fail # "none" => username # NoUser
    /\ fail = "create" => get_workspace_by_username(Tables, username) = EmptyDict
    /\ fail = "skills" => "skills" \in DOMAIN user_data
    /\ (~auto_backup \/ backup_fail \/ json_fail) => (username = NoUser \/ fail = "commit")
    /\ backup_fail => auto_backup /\ data_json.exists
    /\ LET r == save_data(Tables, data_json, user_data, username, auto_backup,
                          fail, backup_fail, json_fail)
       IN /\ workspaces' = r.tables.workspaces
          /\ skills' = r.tables.skills
          /\ projects' = r.tables.projects
          /\ clients' = r.tables.clients
          /\ messages' = r.tables.messages
          /\ services' = r.tables.services
          /\ visitor_logs' = r.tables.visitor_logs
          /\ notification_settings' = r.tables.notification_settings
          /\ users' = r.tables.users
          /\ data_json' = r.file
          /\ last' = [op |-> "save_data", username |-> username, user_data |-> user_data,
                      auto_backup |-> auto_backup, fail |-> fail, backup_fail |-> backup_fail,
                      json_fail |-> json_fail, exc |-> r.exc,
                      relational_writes |-> r.relational_writes, rolled_back |-> r.rolled_back,
                      backup |-> r.backup, wrote |-> r.wrote]
    /\ ops' = ops + 1
    /\ UNCHANGED writers

Next == LoadData \/ SaveData

Spec == Init /\ [][Next]_vars

(***************************************************************************)
(* Properties                                                              *)
(***************************************************************************)
\* the call the last step made
IsLoad == last.op = "load_data"
IsSave == last.op = "save_data"

\* the flat-file record of username, when the document holds one
HoldsRecord(username) ==
  /\ data_json.exists
  /\ "portfolios" \in DOMAIN data_json.content
  /\ username \in DOMAIN data_json.content.portfolios
FlatRecord(username) == data_json.content.portfolios[username]

\* whether a Workspace row with this slug exists
WorkspaceExists(username) == \E i \in DOMAIN workspaces : workspaces[i].slug = username

\* the Workspace row with this slug
WorkspaceRow(username) == workspaces[CHOOSE i \in DOMAIN workspaces : workspaces[i].slug = username]

\* d and e agree on every key but k
SameExcept(d, e, k) ==
  /\ DOMAIN d = DOMAIN e
  /\ \A x \in (DOMAIN d) \ {k} : d[x] = e[x]

\* C1: load_data never propagates a failure of the relational path: whichever
\* point of the relational path raises (the lookup, the materialization), for a
\* username or for the global view, the call returns normally with what the
\* flat-file path returns, which for a username whose record the readable
\* document holds is that record (its non-project keys as stored).
C1_LoadNeverPropagates ==
  (IsLoad /\ last.fail # "none") =>
     /\ last.exc = FALSE
     /\ last.json
     /\ last.value = load_data_from_json(data_json, last.username, last.json_fail)
     /\ (last.username # NoUser /\ HoldsRecord(last.username) /\ ~last.json_fail)
          => SameExcept(last.value, FlatRecord(last.username), "projects")

\* a materialization failure for a username with a workspace and a flat-file record
C1_Witness ==
  /\ IsLoad /\ last.fail = "materialize" /\ last.username = "alice"
  /\ HoldsRecord("alice") /\ ~last.json_fail
  /\ last.value.name = FlatRecord("alice").name

\* C2: the priority chain of load_data(username) when no call of the relational
\* path raises and data.json is readable: an existing Workspace gives exactly
\* workspace_to_dict(workspace) without consulting the flat-file store; else a
\* flat-file record gives that record; else the default template with theme
\* 'luxury-gold' and empty skills/projects/services/messages/clients.
C2_PriorityChain ==
  (IsLoad /\ last.fail = "none" /\ last.username # NoUser /\ ~last.json_fail) =>
     LET u == last.username
         v == last.value
     IN IF WorkspaceExists(u)
        THEN v = workspace_to_dict(Tables, WorkspaceRow(u)) /\ ~last.json
        ELSE IF HoldsRecord(u)
        THEN last.json /\ SameExcept(v, FlatRecord(u), "projects")
        ELSE /\ last.json
             /\ v = get_default_portfolio_data
             /\ v.settings = {<<"theme", "luxury-gold">>}
             /\ v.skills = <<>> /\ v.projects = <<>> /\ v.services = <<>>
             /\ v.messages = <<>> /\ v.clients = <<>>

\* a load answered from the relational store although the document holds a
\* different record for the username
C2_Witness ==
  /\ IsLoad /\ last.fail = "none" /\ last.username = "alice"
  /\ WorkspaceExists("alice") /\ HoldsRecord("alice")
  /\ last.value.name # FlatRecord("alice").name
  /\ ~last.json

\* a load answered by the default template
C2_WitnessDefault ==
  /\ IsLoad /\ last.fail = "none" /\ last.username = "bob"
  /\ ~WorkspaceExists("bob") /\ ~HoldsRecord("bob")
  /\ last.value.settings = DefaultSettings

\* the portfolio-level fields save_data writes
ScalarKeys == {"name", "title", "description", "about", "photo", "contact", "social", "settings"}

\* what load_data(username) returns in the current state when nothing raises
LoadedNow(username) == load_data(Tables, data_json, username, "none", FALSE).value

\* the (name, level) pairs of a list of skills that carry both keys
SkillPairs(skill_list) == {<<s.name, s.level>> : s \in Range(skill_list)}

\* the (name, level) pairs a view's skills list is stored as
StoredSkillPairs(skill_list) ==
  {<<Get(s, "name", ""), Get(s, "level", 50)>> : s \in Range(skill_list)}

\* C3 as stated: after save_data(view, username), whatever the outcome of the
\* save (committed, or failed and written to the flat-file store),
\* load_data(username) returns every scalar field the view carries and, when the
\* view carries a skills list, a skill set equal to the (name, level) pairs of
\* that list.  The stored form of a value is the documented one: an empty
\* settings mapping reads as the default settings, a skill without a level has
\* level 50 and a skill without a name the name ''.
C3_SaveThenLoad_AnyOutcome ==
  (IsSave /\ last.username # NoUser /\ ~last.json_fail) =>
     LET d == last.user_data
         v == LoadedNow(last.username)
     IN /\ \A k \in ScalarKeys \cap DOMAIN d :
             /\ k \in DOMAIN v
             /\ v[k] = (IF k = "settings" /\ d[k] = {} THEN DefaultSettings ELSE d[k])
        /\ "skills" \in DOMAIN d =>
             "skills" \in DOMAIN v /\ StoredSkillPairs(v.skills) = StoredSkillPairs(d.skills)

\* the Project, Client, Message and Service tables
OtherRows == <<projects, clients, messages, services>>

\* C4: a save_data call, committed or failed, leaves the Project, Client, Message
\* and Service rows of every workspace as they were, also when the saved view
\* carries projects/clients/messages/services lists.
C4_OtherRowsUntouched ==
  [][ (last'.op = "save_data") => OtherRows' = OtherRows ]_vars

\* a committed save of a view that carries a projects list, for a workspace that has
\* Project rows
C4_Witness ==
  /\ IsSave /\ last.username = "alice" /\ ~last.rolled_back
  /\ "projects" \in DOMAIN last.user_data
  /\ \E i \in DOMAIN projects : projects[i].workspace_id = "alice"
  /\ \E i \in DOMAIN services : services[i].workspace_id = "alice"

\* the relational state save_data writes
RelationalState == <<workspaces, skills>>

\* the fully updated state of a save for a username
FullyUpdated(user_data, username) ==
  LET r == save_data_try(Tables, user_data, username, "none")
  IN <<r.committed.workspaces, r.committed.skills>>

\* C5 as stated: save_data is atomic on the relational store: after a failure at
\* any point the Workspace rows and Skill rows are exactly those before the call,
\* without a failure exactly the fully updated ones.
C5_Atomic ==
  [][ (last'.op = "save_data" /\ last'.username # NoUser) =>
        IF last'.fail # "none"
        THEN RelationalState' = RelationalState
        ELSE RelationalState' = FullyUpdated(last'.user_data, last'.username) ]_vars

\* C6: when the relational write fails, save_data rolls back (no pending change
\* to a Skill row or to an existing Workspace row stays), does not raise, makes
\* one relational attempt, and, its flat-file access not failing, leaves the view
\* in data.json under portfolios[username].
C6_FallbackOnFailure ==
  [][ (last'.op = "save_data" /\ last'.fail # "none") =>
        /\ last'.rolled_back
        /\ last'.exc = FALSE
        /\ last'.relational_writes = 1
        /\ skills' = skills
        /\ WorkspaceExists(last'.username) => workspaces' = workspaces
        /\ ~last'.json_fail =>
             /\ last'.wrote
             /\ data_json'.exists
             /\ "portfolios" \in DOMAIN data_json'.content
             /\ last'.username \in DOMAIN data_json'.content.portfolios
             /\ data_json'.content.portfolios[last'.username] = last'.user_data ]_vars

\* a failed final commit of a view with skills, for an existing workspace,
\* written to the flat-file document
C6_Witness ==
  /\ IsSave /\ last.fail = "commit" /\ last.username = "alice"
  /\ last.user_data = ViewNoTheme
  /\ HoldsRecord("alice") /\ FlatRecord("alice") = ViewNoTheme
  /\ WorkspaceExists("alice") /\ WorkspaceRow("alice").name # "Al"

\* a save that reached the flat-file path
ReachedFlatFile(l) == l.op = "save_data" /\ (l.username = NoUser \/ l.rolled_back)

\* C7: in the flat-file write path a snapshot is attempted exactly when
\* auto_backup is true and data.json existed before the write; when the snapshot
\* fails the call still returns normally and, the document access itself not
\* failing, the new document is written with the view in it.
C7_BackupNonFatal ==
  [][ ReachedFlatFile(last') =>
        /\ (last'.backup # "none") <=> (last'.auto_backup /\ data_json.exists)
        /\ last'.backup = "failed" =>
             /\ last'.exc = FALSE
             /\ ~last'.json_fail =>
                  /\ last'.wrote
                  /\ data_json'.exists
                  /\ IF last'.username = NoUser
                     THEN \A k \in DOMAIN last'.user_data :
                            k \in DOMAIN data_json'.content
                            /\ data_json'.content[k] = last'.user_data[k]
                     ELSE data_json'.content.portfolios[last'.username] = last'.user_data ]_vars

\* a fallback save whose snapshot failed and whose view is in the document, which
\* held another record before
C7_Witness ==
  /\ IsSave /\ last.rolled_back /\ last.backup = "failed" /\ last.wrote
  /\ last.username = "alice" /\ last.user_data = ViewFull
  /\ FlatRecord("alice") = ViewFull
  /\ "bob" \in DOMAIN data_json.content.portfolios

\* C8 as stated: after any sequence of save_data calls, load_data(username)
\* returns a view whose settings mapping has a theme key.
C8_ThemeAlwaysPresent ==
  (IsSave /\ last.username # NoUser) =>
     LET v == LoadedNow(last.username)
     IN "settings" \in DOMAIN v /\ HasKey(v.settings, "theme")

\* the rows of a table that belong to workspace w, as a set
RowsOfWorkspace(rows, w) == {r \in Range(rows) : r.workspace_id = w}

\* C9: load_data(A) answered by the relational store contains only skills,
\* projects, clients, messages, services, visitor logs and notification settings
\* of rows whose workspace is A, and save_data(view, A) changes neither the
\* Workspace row nor the Skill rows of another username B.
C9_NoCrossWorkspace ==
  [][ /\ (last'.op = "load_data" /\ last'.username # NoUser /\ ~last'.json) =>
           LET A == last'.username
               v == last'.value
           IN /\ v.username = A
              /\ \A s \in Range(v.skills) :
                   \E r \in RowsOfWorkspace(skills', A) : r.name = s.name /\ r.level = s.level
              /\ \A p \in Range(v.projects) : \E r \in RowsOfWorkspace(projects', A) : r.id = p.id
              /\ \A c \in Range(v.clients) : \E r \in RowsOfWorkspace(clients', A) : r.id = c.id
              /\ \A m \in Range(v.messages) : \E r \in RowsOfWorkspace(messages', A) : r.id = m.id
              /\ \A x \in Range(v.services) : \E r \in RowsOfWorkspace(services', A) : r.id = x.id
              /\ v.visitors.total = Cardinality({i \in DOMAIN visitor_logs' :
                                                   visitor_logs'[i].workspace_id = A})
              /\ v.visitors.unique_ips \subseteq
                   {r.ip_address : r \in RowsOfWorkspace(visitor_logs', A)}
              /\ \A t \in Range(v.visitors.today) :
                   \E r \in RowsOfWorkspace(visitor_logs', A) : r.ip_address = t.ip
              /\ "telegram" \in DOMAIN v.notifications =>
                   \E r \in RowsOfWorkspace(notification_settings', A) :
                      ColOrNone(r, "telegram_bot_token") = v.notifications.telegram.bot_token
      /\ (last'.op = "save_data") =>
           \A B \in Usernames \ {last'.username} :
              /\ RowsOfWorkspace(skills', B) = RowsOfWorkspace(skills, B)
              /\ SelectSeq(skills', LAMBDA r : r.workspace_id = B)
                   = SelectSeq(skills, LAMBDA r : r.workspace_id = B)
              /\ {w \in Range(workspaces') : w.slug = B} = {w \in Range(workspaces) : w.slug = B}
    ]_vars

\* a load of one workspace from the relational store while another workspace has
\* rows of its own in every table
C9_Witness ==
  /\ IsLoad /\ last.username = "alice" /\ ~last.json
  /\ last.value.skills # <<>> /\ last.value.projects # <<>>
  /\ RowsOfWorkspace(skills, "bob") # {} /\ RowsOfWorkspace(projects, "bob") # {}
  /\ RowsOfWorkspace(visitor_logs, "bob") # {} /\ RowsOfWorkspace(messages, "bob") # {}

\* C10: for a username absent from the relational store and present in the
\* readable flat-file document, load_data returns the record with every
\* non-project key as stored and with each project as stored except that a
\* missing project_type is 'portfolio' and a missing badge is the badge derived
\* from the project's (possibly back-filled) project_type.
C10_FlatRecordBackfill ==
  (IsLoad /\ last.username # NoUser /\ ~WorkspaceExists(last.username)
     /\ HoldsRecord(last.username) /\ ~last.json_fail) =>
     LET rec == FlatRecord(last.username)
         v == last.value
     IN /\ SameExcept(v, rec, "projects")
        /\ "projects" \in DOMAIN rec =>
             /\ Len(v.projects) = Len(rec.projects)
             /\ \A i \in DOMAIN rec.projects :
                  LET p == rec.projects[i]
                      q == v.projects[i]
                  IN /\ DOMAIN q = (DOMAIN p) \cup {"project_type", "badge"}
                     /\ \A k \in DOMAIN p : q[k] = p[k]
                     /\ "project_type" \notin DOMAIN p => q.project_type = "portfolio"
                     /\ "badge" \notin DOMAIN p => q.badge = determine_badge(q.project_type)

\* a load of a legacy record with a project lacking both keys, one lacking only
\* the badge and one carrying both
C10_Witness ==
  /\ IsLoad /\ last.username = "alice" /\ ~WorkspaceExists("alice") /\ HoldsRecord("alice")
  /\ FlatRecord("alice") = LegacyRecord /\ ~last.json_fail
  /\ last.value.projects[1].badge = determine_badge("portfolio")
  /\ last.value.projects[2].badge = determine_badge("request")
  /\ last.value.projects[3].badge = "custom"

\* the keys only a request project carries
RequestKeys == {"request_budget_min", "request_budget_max", "request_deadline", "request_status"}

\* C11: in the view materialized from the relational store a project has the
\* four keys request_budget_min, request_budget_max, request_deadline and
\* request_status exactly when the project_type of its row is 'request'; a
\* project of another type, or with no project_type (reported as 'portfolio'),
\* has none of them, not even with a null value.
C11_RequestKeysIffRequest ==
  (IsLoad /\ last.username # NoUser /\ ~last.json) =>
     LET rows == SelectSeq(projects, LAMBDA r : r.workspace_id = last.username)
         listed == last.value.projects
     IN /\ Len(listed) = Len(rows)
        /\ \A i \in DOMAIN rows :
             LET r == rows[i]
                 q == listed[i]
                 is_request == "project_type" \in DOMAIN r /\ r.project_type = "request"
             IN /\ q.id = r.id
                /\ is_request => (RequestKeys \subseteq DOMAIN q /\ q.project_type = "request")
                /\ ~is_request => RequestKeys \cap DOMAIN q = {}
                /\ "project_type" \notin DOMAIN r => q.project_type = "portfolio"

\* loads that list a request project with its four keys, a portfolio project
\* without them, and (for the other workspace) a project without a project_type
C11_Witness ==
  /\ IsLoad /\ last.username = "alice" /\ ~last.json
  /\ Len(last.value.projects) = 2
  /\ RequestKeys \cap DOMAIN last.value.projects[1] = {}
  /\ RequestKeys \subseteq DOMAIN last.value.projects[2]
  /\ last.value.projects[2].request_status = "open"
  /\ \E i \in DOMAIN projects : "project_type" \notin DOMAIN projects[i]

(***************************************************************************)
(* PDF export (src/blueprints/portfolio/routes.py, download_cv).           *)
(*                                                                         *)
(* A text is a sequence of fragments, so that `needle in text` and the     *)
(* f-string that embeds str(e) are operations on it.  An exception is a    *)
(* record [type, msg]; NoExc is "the call returned".                       *)
(***************************************************************************)
\* `needle in text`
Contains(needle, text) ==
  \E i \in 1..(Len(text) + 1 - Len(needle)) : SubSeq(text, i, i + Len(needle) - 1) = needle

\* str(e)
StrOfExc(e) == e.msg

NoExc == [type |-> "none"]
NotCalled == [type |-> "not_called"]

\* what `import weasyprint` .. `html.write_pdf(pdf_buffer)` can do
WeasyprintOutcomes ==
  {NoExc,
   [type |-> "ImportError", msg |-> <<"No module named '", "weasyprint", "'">>],
   [type |-> "OSError", msg |-> <<"cannot load library '", "libgobject", "-2.0-0", "': error 0x7e">>],
   [type |-> "OSError", msg |-> <<"dlopen() failed to load ", "libgobject", "-2.0.so">>],
   [type |-> "OSError", msg |-> <<"cannot load library '", "libpango", "-1.0-0", "'">>],
   [type |-> "Exception", msg |-> <<"unsupported CSS property">>]}

\* what `import pdfkit` .. `pdfkit.from_string(...)` can do
PdfkitOutcomes ==
  {NoExc,
   [type |-> "ImportError", msg |-> <<"No module named '", "pdfkit", "'">>],
   [type |-> "OSError", msg |-> <<"No wkhtmltopdf executable found">>],
   [type |-> "Exception", msg |-> <<"wkhtmltopdf exited with non-zero code 1">>]}

\* shutil.which('wkhtmltopdf')
WkhtmlPaths == {None, "/usr/bin/wkhtmltopdf"}

\* the flask session of the request
Sessions == {EmptyDict} \cup {[username |-> u] : u \in Usernames \cup {"admin"}}

MsgGtkRuntime ==
  <<"PDF generation failed: missing GTK runtime (", "libgobject",
    "). On Windows install the MSYS2 GTK runtime or install wkhtmltopdf and python-pdfkit as an alternative.">>
MsgNoLibrary ==
  <<"PDF generation library not available. Please install WeasyPrint (and its GTK runtime on Windows) or install wkhtmltopdf and python-pdfkit as an alternative.">>
MsgNoWkhtml ==
  <<"wkhtmltopdf not found. Install wkhtmltopdf and ensure it is on the PATH, or install WeasyPrint with GTK runtime on Windows.">>

\* name.replace(' ', '_') on the names the stores hold
ReplaceSpaces(name) ==
  CASE name = "Alice (legacy)" -> "Alice_(legacy)"
    [] name = "Bob (legacy)" -> "Bob_(legacy)"
    [] OTHER -> name

\* send_file(pdf_buffer, mimetype='application/pdf', as_attachment=True, download_name=...)
send_cv_file(data, renderer) ==
  [kind |-> "file", mimetype |-> "application/pdf", as_attachment |-> TRUE,
   download_name |-> <<ReplaceSpaces(Get(data, "name", "CV")), "_CV.pdf">>,
   renderer |-> renderer]

\* flash(text, 'error'); return redirect(url_for('portfolio.cv_preview'))
redirect_to_preview(text) ==
  [kind |-> "redirect", endpoint |-> "portfolio.cv_preview",
   flashed |-> <<[text |-> text, category |-> "error"]>>]

\* the first try block attempting the fallback whatever OSError was raised
try_weasyprint_no_gtk_check(data, a) ==
  CASE a = NoExc -> [done |-> TRUE, response |-> send_cv_file(data, "weasyprint")]
    [] OTHER -> [done |-> FALSE]

\* the first try block: [done, response]; done = FALSE falls through to the fallback
try_weasyprint(data, a) ==
  CASE a = NoExc -> [done |-> TRUE, response |-> send_cv_file(data, "weasyprint")]
    [] a.type = "ImportError" -> [done |-> FALSE]
    [] a.type = "OSError" ->
         LET msg == StrOfExc(a)
         IN IF Contains(<<"libgobject", "-2.0-0">>, msg) \/ Contains(<<"libgobject">>, msg)
            THEN [done |-> TRUE, response |-> redirect_to_preview(MsgGtkRuntime)]
            ELSE [done |-> FALSE]
    [] OTHER -> [done |-> FALSE]

\* the second try block reporting a missing pdfkit like any other failure
try_pdfkit_import_error_generic(data, b) ==
  CASE b = NoExc -> send_cv_file(data, "pdfkit")
    [] b.type = "OSError" -> redirect_to_preview(MsgNoWkhtml)
    [] OTHER -> redirect_to_preview(<<"Error generating PDF: ">> \o StrOfExc(b))

\* the second try block: always ends the request
try_pdfkit(data, b) ==
  CASE b = NoExc -> send_cv_file(data, "pdfkit")
    [] b.type = "ImportError" -> redirect_to_preview(MsgNoLibrary)
    [] b.type = "OSError" -> redirect_to_preview(MsgNoWkhtml)
    [] OTHER -> redirect_to_preview(<<"Error generating PDF: ">> \o StrOfExc(b))

\* download_cv giving up after the first renderer, without the fallback
download_cv_no_fallback(T, file, session, fail, a, b) ==
  LET username == Get(session, "username", "admin")
      data == load_data(T, file, username, fail, FALSE).value
      first_try == try_weasyprint(data, a)
  IN IF first_try.done
     THEN [attempted |-> <<"weasyprint">>, response |-> first_try.response]
     ELSE [attempted |-> <<"weasyprint">>, response |-> redirect_to_preview(MsgNoLibrary)]

\* download_cv: [attempted, response]
download_cv(T, file, session, fail, a, b) ==
  LET username == Get(session, "username", "admin")
      data == load_data(T, file, username, fail, FALSE).value
      first_try == try_weasyprint(data, a)
  IN IF first_try.done
     THEN [attempted |-> <<"weasyprint">>, response |-> first_try.response]
     ELSE [attempted |-> <<"weasyprint", "pdfkit">>, response |-> try_pdfkit(data, b)]

\* whether the first renderer's outcome ends the request
WeasyprintEnds(a) == try_weasyprint(EmptyDict, a).done

\* The fallback's outcome is an input only when the fallback runs; without
\* a wkhtmltopdf executable pdfkit.from_string cannot return a document.
DownloadCv ==
  \E session \in Sessions, fail \in LoadFailPoints, a \in WeasyprintOutcomes,
     b \in PdfkitOutcomes \cup {NotCalled}, wkhtml_path \in WkhtmlPaths :
    /\ ops < MaxOps
    /\ fail = "materialize" =>
         get_workspace_by_username(Tables, Get(session, "username", "admin")) # EmptyDict
    /\ b = NotCalled <=> WeasyprintEnds(a)
    /\ (b = NotCalled \/ b.type = "ImportError") => wkhtml_path = None
    /\ (b = NoExc) => wkhtml_path # None
    /\ LET r == download_cv(Tables, data_json, session, fail, a, b)
       IN last' = [op |-> "download_cv", session |-> session, fail |-> fail,
                   weasyprint |-> a, pdfkit |-> b, wkhtml_path |-> wkhtml_path,
                   attempted |-> r.attempted, response |-> r.response]
    /\ ops' = ops + 1
    /\ UNCHANGED writers
    /\ UNCHANGED <<workspaces, skills, projects, clients, messages, services,
                   visitor_logs, notification_settings, users, data_json>>

NextPdf == DownloadCv

SpecPdf == Init /\ [][NextPdf]_vars

IsPdf == last.op = "download_cv"

\* the text flashed to the user by the last export, <<>> when none was
FlashedText == IF last.response.kind = "redirect" THEN last.response.flashed[1].text ELSE <<>>

\* the exceptions the last export raised and caught
RaisedInExport ==
  {e \in {last.weasyprint, last.pdfkit} : e.type \notin {"none", "not_called"}}

\* C12: when the libraries of both renderers are missing (both imports raise
\* ImportError) the export redirects to the preview page with the
\* library-install remediation message and streams no file.
C12_BothLibrariesMissing ==
  (IsPdf /\ last.weasyprint.type = "ImportError" /\ last.pdfkit.type = "ImportError") =>
     /\ last.response.kind = "redirect"
     /\ last.response.endpoint = "portfolio.cv_preview"
     /\ last.response.flashed = <<[text |-> MsgNoLibrary, category |-> "error"]>>
     /\ last.attempted = <<"weasyprint", "pdfkit">>

\* an export with neither library installed
C12_Witness ==
  /\ IsPdf /\ last.weasyprint.type = "ImportError" /\ last.pdfkit.type = "ImportError"
  /\ last.response.kind = "redirect"
  /\ FlashedText = MsgNoLibrary

\* whether the text of the OSError names the libgobject shared library
NamesLibgobject(e) == e.type = "OSError" /\ \E i \in DOMAIN e.msg : e.msg[i] = "libgobject"

\* C13: when the first renderer is installed but raises a runtime-dependency
\* error (OSError) whose text names libgobject, the export flashes the GTK
\* runtime remediation message, redirects to the preview page and stops: the
\* second renderer is never attempted.
C13_KnownMissingLibraryStops ==
  (IsPdf /\ NamesLibgobject(last.weasyprint)) =>
     /\ last.response = redirect_to_preview(MsgGtkRuntime)
     /\ last.attempted = <<"weasyprint">>
     /\ last.pdfkit = NotCalled

\* an export stopped by an OSError that names libgobject but not libgobject-2.0-0
C13_Witness ==
  /\ IsPdf /\ NamesLibgobject(last.weasyprint)
  /\ ~Contains(<<"libgobject", "-2.0-0">>, last.weasyprint.msg)
  /\ FlashedText = MsgGtkRuntime
  /\ last.attempted = <<"weasyprint">>

\* C14: in every failure path of the export the message shown to the user is
\* one of the fixed actionable texts and never contains the text of a raised
\* exception.
C14_NoRawExceptionText ==
  (IsPdf /\ last.response.kind = "redirect") =>
     /\ FlashedText \in {MsgGtkRuntime, MsgNoLibrary, MsgNoWkhtml}
     /\ \A e \in RaisedInExport : ~Contains(StrOfExc(e), FlashedText)

\* whether the first renderer failed in a way that leads to the fallback
WeasyprintFallsThrough(a) ==
  \/ a.type = "ImportError"
  \/ a.type = "OSError" /\ ~NamesLibgobject(a)
  \/ a.type = "Exception"

\* C20: the export tries the renderers in order and stops at the first success:
\* the first renderer is always attempted first; the second is attempted exactly
\* when the first was attempted and failed with a missing library, a runtime
\* dependency error other than the known missing library, or any other error;
\* when the first succeeds its file is streamed and the second is never
\* attempted; a terminal error is reported only after the second renderer also
\* failed, except in the known-missing-library case.
C20_RendererOrder ==
  IsPdf =>
     /\ last.attempted \in {<<"weasyprint">>, <<"weasyprint", "pdfkit">>}
     /\ (last.attempted = <<"weasyprint", "pdfkit">>) <=> WeasyprintFallsThrough(last.weasyprint)
     /\ last.weasyprint = NoExc =>
          /\ last.response.kind = "file" /\ last.response.renderer = "weasyprint"
          /\ last.pdfkit = NotCalled
     /\ last.response.kind = "file" =>
          \/ last.response.renderer = "weasyprint" /\ last.weasyprint = NoExc
          \/ /\ last.response.renderer = "pdfkit" /\ last.pdfkit = NoExc
             /\ last.weasyprint # NoExc
     /\ last.response.kind = "redirect" =>
          \/ NamesLibgobject(last.weasyprint)
          \/ /\ WeasyprintFallsThrough(last.weasyprint)
             /\ last.pdfkit.type \in {"ImportError", "OSError", "Exception"}

\* an export whose first renderer fails with an unrelated runtime-dependency
\* error and whose second renderer streams the file
C20_Witness ==
  /\ IsPdf /\ last.weasyprint.type = "OSError" /\ ~NamesLibgobject(last.weasyprint)
  /\ last.attempted = <<"weasyprint", "pdfkit">>
  /\ last.response.kind = "file" /\ last.response.renderer = "pdfkit"
  /\ last.response.download_name = <<"Alice", "_CV.pdf">>

(***************************************************************************)
(* Contact intake (src/blueprints/portfolio/routes.py, contact).           *)
(*                                                                         *)
(* A form text is a sequence of runs [ch, n], n >= 1 repetitions of the    *)
(* symbol ch; '' is <<>> and whitespace is the symbol " ".  A word without *)
(* whitespace (a name, an address, a slug) is one symbol.                  *)
(***************************************************************************)
Rep(c, n) == <<[ch |-> c, n |-> n]>>
Word(s) == Rep(s, 1)

\* len(text)
TextLen(text) ==
  LET sum[i \in 0..Len(text)] == IF i = 0 THEN 0 ELSE sum[i - 1] + text[i].n
  IN sum[Len(text)]

\* text.strip() leaving the text as it is
strip_noop(text) == text

\* text.strip()
strip(text) ==
  LET solid == {i \in DOMAIN text : text[i].ch # " "}
  IN IF solid = {} THEN <<>>
     ELSE SubSeq(text, CHOOSE i \in solid : \A j \in solid : i <= j,
                       CHOOSE i \in solid : \A j \in solid : j <= i)

\* text[:k]
Take(text, k) ==
  LET before(i) == TextLen(SubSeq(text, 1, i - 1))
      kept == {i \in DOMAIN text : before(i) < k}
  IN [i \in 1..Cardinality(kept) |->
        [ch |-> text[i].ch,
         n |-> IF text[i].n <= k - before(i) THEN text[i].n ELSE k - before(i)]]

\* the limit of a stored message body
MaxMessageLen == 5000

\* the length of the message excerpt in the notification
PreviewLen == 200

\* request.form.get(field, '')
FormGet(form, field) == Get(form, field, <<>>)

\* request.form.get('website') taken as filled only when not blank
honeypot_filled_unless_blank(form) == strip(FormGet(form, "website")) # <<>>

\* `if request.form.get('website')`
honeypot_filled(form) == FormGet(form, "website") # <<>>

\* the stripped fields of the form
form_fields(form) ==
  [f \in {"name", "email", "message", "portfolio_owner", "request_type", "interest_area",
          "seriousness", "contact_pref", "company"} |-> strip(FormGet(form, f))]

\* all([name, email, message_content, portfolio_owner])
required_present(fields) ==
  \A f \in {"name", "email", "message", "portfolio_owner"} : fields[f] # <<>>

\* Workspace.query.filter_by(slug=portfolio_owner).first()
workspace_by_slug(T, portfolio_owner) ==
  first(SelectSeq(T.workspaces, LAMBDA w : Word(w.slug) = portfolio_owner))

\* the primary key the database gives the inserted row
next_message_id(T) ==
  IF T.messages = <<>> THEN 1
  ELSE 1 + (CHOOSE m \in {r.id : r \in Range(T.messages)} :
              \A k \in {r.id : r \in Range(T.messages)} : k <= m)

OptionalFields == {"request_type", "interest_area", "seriousness", "contact_pref", "company"}

\* Message(...) storing the whole message body
new_message_untruncated(T, workspace, fields) ==
  LET given == {f \in OptionalFields : fields[f] # <<>>}
  IN Update([id |-> next_message_id(T), workspace_id |-> workspace.slug,
             name |-> fields.name, email |-> fields.email,
             message |-> fields.message,
             is_read |-> FALSE, category |-> "portfolio", sender_role |-> "visitor"],
            [f \in given |-> fields[f]])

\* Message(...): `field or None` leaves the column NULL
new_message(T, workspace, fields) ==
  LET given == {f \in OptionalFields : fields[f] # <<>>}
  IN Update([id |-> next_message_id(T), workspace_id |-> workspace.slug,
             name |-> fields.name, email |-> fields.email,
             message |-> Take(fields.message, MaxMessageLen),
             is_read |-> FALSE, category |-> "portfolio", sender_role |-> "visitor"],
            [f \in given |-> fields[f]])

\* the arguments of send_telegram_notification
notification_of(fields) ==
  [from |-> fields.name, email |-> fields.email,
   preview |-> Take(fields.message, PreviewLen)
                 \o (IF TextLen(fields.message) > PreviewLen THEN Rep(".", 3) ELSE <<>>),
   username |-> fields.portfolio_owner]

\* flash(text, category); return redirect(request.referrer or url_for('pages.index'))
flash_and_redirect(text, category, referrer) ==
  [kind |-> "redirect", location |-> StrOr(referrer, "pages.index"),
   flashed |-> <<[text |-> text, category |-> category]>>]

MsgTooMany == "Too many requests."
MsgRequired == "Required fields missing."
MsgError == "Error sending message. Please try again."
MsgSent == "Message sent successfully! We will get back to you soon."

\* the points of contact that can raise
ContactFailPoints == {"none", "lookup", "commit", "notify"}

\* the `except Exception` handler: [tables, response, ...] after db.session.rollback()
contact_except(s, referrer, rate_checked, notify_called) ==
  [tables |-> rollback(s).session, committed |-> s.committed,
   response |-> flash_and_redirect(MsgError, "danger", referrer),
   rate_checked |-> rate_checked, notify_called |-> notify_called, notified |-> <<>>,
   exc |-> TRUE, stage |-> "except"]

\* a return inside the try block that wrote nothing
contact_return(T, response, rate_checked, stage) ==
  [tables |-> T, committed |-> T, response |-> response, rate_checked |-> rate_checked,
   notify_called |-> FALSE, notified |-> <<>>, exc |-> FALSE, stage |-> stage]

\* contact testing the required fields before asking the rate limiter
contact_required_before_rate_limit(T, form, rate_ok, referrer, fail) ==
  IF honeypot_filled(form)
  THEN contact_return(T, [kind |-> "json", body |-> [success |-> TRUE]], FALSE, "honeypot")
  ELSE
    LET fields == form_fields(form) IN
    IF ~required_present(fields)
    THEN contact_return(T, flash_and_redirect(MsgRequired, "danger", referrer), FALSE, "required")
    ELSE IF ~rate_ok
    THEN contact_return(T, flash_and_redirect(MsgTooMany, "danger", referrer), TRUE, "rate_limit")
    ELSE IF fail = "lookup"
    THEN contact_except([committed |-> T, session |-> T], referrer, TRUE, FALSE)
    ELSE
      LET workspace == workspace_by_slug(T, fields.portfolio_owner) IN
      IF workspace = EmptyDict
      THEN contact_return(T, flash_and_redirect(MsgError, "danger", referrer), TRUE, "workspace")
      ELSE
        LET added == [T EXCEPT !.messages = Append(@, new_message(T, workspace, fields))] IN
        IF fail = "commit"
        THEN contact_except([committed |-> T, session |-> added], referrer, TRUE, FALSE)
        ELSE IF fail = "notify"
        THEN contact_except([committed |-> added, session |-> added], referrer, TRUE, TRUE)
        ELSE [tables |-> added, committed |-> added,
              response |-> flash_and_redirect(MsgSent, "success", referrer),
              rate_checked |-> TRUE, notify_called |-> TRUE,
              notified |-> <<notification_of(fields)>>, exc |-> FALSE, stage |-> "sent"]

\* contact: [tables, committed, response, rate_checked, notify_called, notified,
\* exc, stage].  tables is the session's view when the request ends, committed
\* what the database holds; fail is the call that raises.
contact(T, form, rate_ok, referrer, fail) ==
  IF honeypot_filled(form)
  THEN contact_return(T, [kind |-> "json", body |-> [success |-> TRUE]], FALSE, "honeypot")
  ELSE IF ~rate_ok
  THEN contact_return(T, flash_and_redirect(MsgTooMany, "danger", referrer), TRUE, "rate_limit")
  ELSE
    LET fields == form_fields(form) IN
    IF ~required_present(fields)
    THEN contact_return(T, flash_and_redirect(MsgRequired, "danger", referrer), TRUE, "required")
    ELSE IF fail = "lookup"
    THEN contact_except([committed |-> T, session |-> T], referrer, TRUE, FALSE)
    ELSE
      LET workspace == workspace_by_slug(T, fields.portfolio_owner) IN
      IF workspace = EmptyDict
      THEN contact_return(T, flash_and_redirect(MsgError, "danger", referrer), TRUE, "workspace")
      ELSE
        LET added == [T EXCEPT !.messages = Append(@, new_message(T, workspace, fields))] IN
        IF fail = "commit"
        THEN contact_except([committed |-> T, session |-> added], referrer, TRUE, FALSE)
        ELSE IF fail = "notify"
        THEN contact_except([committed |-> added, session |-> added], referrer, TRUE, TRUE)
        ELSE [tables |-> added, committed |-> added,
              response |-> flash_and_redirect(MsgSent, "success", referrer),
              rate_checked |-> TRUE, notify_called |-> TRUE,
              notified |-> <<notification_of(fields)>>, exc |-> FALSE, stage |-> "sent"]

\* the stage at which contact(form) ends when nothing raises
ContactStage(T, form, rate_ok) == contact(T, form, rate_ok, None, "none").stage

(***************************************************************************)
(* The forms submitted                                                     *)
(***************************************************************************)
LongMessage == Rep(" ", 2) \o Rep("a", MaxMessageLen - 1) \o Rep(" ", 1) \o Rep("b", 3) \o Rep(" ", 4)

FormPlain ==
  [name |-> Word("Vic"), email |-> Word("vic@example.org"),
   message |-> Word("hello") \o Rep(" ", 1) \o Word("alice"), portfolio_owner |-> Word("alice")]

FormPadded ==
  [name |-> Rep(" ", 1) \o Word("Wes") \o Rep(" ", 2), email |-> Word("wes@example.org") \o Rep(" ", 1),
   message |-> LongMessage, portfolio_owner |-> Rep(" ", 1) \o Word("bob"),
   request_type |-> Word("hire"), company |-> Rep(" ", 2), website |-> <<>>]

FormGhost == [FormPlain EXCEPT !.portfolio_owner = Word("ghost")]

\* forms with a required field missing or blank
FormsIncomplete ==
  { [f \in DOMAIN FormPlain \ {"email"} |-> FormPlain[f]],
    [f \in DOMAIN FormPlain \ {"portfolio_owner"} |-> FormPlain[f]],
    [FormPlain EXCEPT !.name = Rep(" ", 3)],
    [FormPlain EXCEPT !.message = <<>>],
    [FormGhost EXCEPT !.email = Rep(" ", 1)] }

HoneypotValues == {Word("http://spam.example"), Rep(" ", 2)}

BaseForms == {FormPlain, FormPadded, FormGhost} \cup FormsIncomplete

Forms == BaseForms \cup {Put(f, "website", w) : f \in BaseForms, w \in HoneypotValues}

Referrers == {None, "/alice"}

\* check_rate_limit's answer and a raising call are inputs only where the
\* request reaches them
Contact ==
  \E form \in Forms, rate_ok \in BOOLEAN, referrer \in Referrers, fail \in ContactFailPoints :
    /\ ops < MaxOps
    /\ honeypot_filled(form) => rate_ok
    /\ fail = "lookup" => ContactStage(Tables, form, rate_ok) \in {"workspace", "sent"}
    /\ fail \in {"commit", "notify"} => ContactStage(Tables, form, rate_ok) = "sent"
    /\ LET r == contact(Tables, form, rate_ok, referrer, fail)
       IN /\ messages' = r.committed.messages
          /\ last' = [op |-> "contact", form |-> form, rate_ok |-> rate_ok,
                      referrer |-> referrer, fail |-> fail, response |-> r.response,
                      rate_checked |-> r.rate_checked, notify_called |-> r.notify_called,
                      notified |-> r.notified, exc |-> r.exc, stage |-> r.stage,
                      session_messages |-> r.tables.messages,
                      messages_before |-> messages]
    /\ ops' = ops + 1
    /\ UNCHANGED writers
    /\ UNCHANGED <<workspaces, skills, projects, clients, services,
                   visitor_logs, notification_settings, users, data_json>>

NextContact == Contact

SpecContact == Init /\ [][NextContact]_vars

IsContact == last.op = "contact"

\* the Message rows the last request persisted
CreatedRows == SubSeq(messages, Len(last.messages_before) + 1, Len(messages))

\* whether the last request was answered with a flashed rejection
Rejected ==
  /\ last.response.kind = "redirect"
  /\ Len(last.response.flashed) = 1
  /\ last.response.flashed[1].category = "danger"

\* whether a required field of the submitted form is missing or blank
RequiredBlank ==
  \E f \in {"name", "email", "message", "portfolio_owner"} :
    f \notin DOMAIN last.form \/ \A i \in DOMAIN last.form[f] : last.form[f][i].ch = " "

\* whether the submitted form has a non-empty honeypot field
WebsiteGiven == "website" \in DOMAIN last.form /\ last.form.website # <<>>

\* C15: a contact request with a non-empty honeypot field `website` is answered
\* with the success response and creates no Message row, whatever the other
\* fields hold; the rate limiter is not consulted and no notification is sent.
C15_HoneypotSilentSuccess ==
  (IsContact /\ WebsiteGiven) =>
     /\ last.response = [kind |-> "json", body |-> [success |-> TRUE]]
     /\ messages = last.messages_before
     /\ last.session_messages = last.messages_before
     /\ ~last.rate_checked
     /\ ~last.notify_called /\ last.notified = <<>>

\* a blank but non-empty honeypot on an otherwise complete form for an existing workspace
C15_Witness ==
  /\ IsContact /\ WebsiteGiven
  /\ last.form.website = Rep(" ", 2)
  /\ ~RequiredBlank
  /\ \E i \in DOMAIN workspaces : Word(workspaces[i].slug) = strip(last.form.portfolio_owner)
  /\ last.response.kind = "json"
  /\ messages = last.messages_before

\* C16 as stated: every contact request in which name, email, message or
\* portfolio_owner is missing or blank after trimming is rejected with a
\* user-visible message, creates no Message row and sends no notification.
C16_BlankRejected_AnyHoneypot ==
  (IsContact /\ RequiredBlank) =>
     /\ Rejected
     /\ CreatedRows = <<>>
     /\ last.notified = <<>> /\ ~last.notify_called

\* C16 amended: a contact request with an empty honeypot field in which name,
\* email, message or portfolio_owner is missing or blank after trimming is
\* rejected with a user-visible message, creates no Message row and sends no
\* notification.
C16_BlankRejected ==
  (IsContact /\ RequiredBlank /\ ~WebsiteGiven) =>
     /\ Rejected
     /\ last.response.flashed[1].text \in {MsgRequired, MsgTooMany}
     /\ CreatedRows = <<>>
     /\ last.session_messages = last.messages_before
     /\ last.notified = <<>> /\ ~last.notify_called

\* a form whose name is only whitespace, rejected by the required-field stage
\* although its workspace exists
C16_Witness ==
  /\ IsContact /\ ~WebsiteGiven /\ last.rate_ok
  /\ "name" \in DOMAIN last.form /\ last.form.name = Rep(" ", 3)
  /\ WorkspaceExists("alice")
  /\ Rejected /\ last.response.flashed[1].text = MsgRequired
  /\ CreatedRows = <<>>

\* C17: when the honeypot, rate-limit, required-field and workspace stages pass
\* and the row is committed, a notification send that raises leaves the Message
\* row persisted and the intake is still reported as a success.
C17_NotificationDecoupled ==
  (IsContact /\ last.fail = "notify") =>
     /\ Len(CreatedRows) = 1
     /\ last.response.kind = "redirect"
     /\ last.response.flashed = <<[text |-> MsgSent, category |-> "success"]>>

\* C18: every Message row created by contact intake belongs to the workspace
\* whose slug is the trimmed portfolio_owner, its body is the first 5000
\* characters of the trimmed message (so at most 5000 characters long), its
\* category is 'portfolio', its sender role 'visitor' and its read flag false.
C18_CreatedRowShape ==
  (IsContact /\ messages # last.messages_before) =>
     /\ Len(CreatedRows) = 1
     /\ SubSeq(messages, 1, Len(last.messages_before)) = last.messages_before
     /\ LET row == CreatedRows[1]
        IN /\ \E i \in DOMAIN workspaces :
                /\ Word(workspaces[i].slug) = strip(last.form.portfolio_owner)
                /\ row.workspace_id = workspaces[i].slug
           /\ TextLen(row.message) <= MaxMessageLen
           /\ row.message = Take(strip(last.form.message), MaxMessageLen)
           /\ row.category = "portfolio"
           /\ row.sender_role = "visitor"
           /\ row.is_read = FALSE

\* a padded form with a message longer than the limit, stored for bob cut to
\* 5000 characters
C18_Witness ==
  /\ IsContact /\ Len(CreatedRows) = 1
  /\ TextLen(strip(last.form.message)) > MaxMessageLen
  /\ CreatedRows[1].workspace_id = "bob"
  /\ CreatedRows[1].name = Word("Wes")
  /\ CreatedRows[1].message = Rep("a", 4999) \o Rep(" ", 1)
  /\ TextLen(CreatedRows[1].message) = 5000
  /\ "company" \notin DOMAIN CreatedRows[1]
  /\ last.notified[1].preview = Rep("a", 200) \o Rep(".", 3)

(***************************************************************************)
(* Public portfolio page (src/blueprints/portfolio/routes.py,              *)
(* user_portfolio).                                                        *)
(***************************************************************************)
\* mapping.get(k, default) on a set of <<key, value>> pairs
MapGet(m, k, default) == IF HasKey(m, k) THEN (CHOOSE p \in m : p[1] = k)[2] ELSE default

\* next((u for u in users if u['username'] == username), None)
find_user(user_list, username) ==
  first(SelectSeq(user_list, LAMBDA u : u.username = username))

\* user_portfolio redirecting on the reserved username only
user_portfolio_reserved_name_only(T, file, username, fail, fail_all) ==
  LET loaded == load_data(T, file, username, fail, FALSE).value
      all_data == load_data(T, file, NoUser, fail_all, FALSE).value
      user_entry == find_user(Get(all_data, "users", <<>>), username)
      user_data == IF user_entry # EmptyDict
                   THEN Update(loaded, [is_verified |-> Get(user_entry, "is_verified", FALSE),
                                        username |-> username])
                   ELSE loaded
  IN IF user_entry = EmptyDict /\ username # "admin"
     THEN [response |-> [kind |-> "render", template |-> "404.html", status |-> 404],
           user_entry |-> user_entry, tracked |-> <<>>]
     ELSE IF username = "admin"
     THEN [response |-> [kind |-> "redirect", endpoint |-> "pages.index"],
           user_entry |-> user_entry, tracked |-> <<>>]
     ELSE [response |-> [kind |-> "render", template |-> "index.html", status |-> 200,
                         data |-> user_data, is_public |-> TRUE,
                         current_theme |-> MapGet(Get(user_data, "settings", {}), "theme", DefaultTheme)],
           user_entry |-> user_entry, tracked |-> <<username>>]

\* user_portfolio: [response, user_entry, tracked]; tracked lists the calls of
\* track_visitor
user_portfolio(T, file, username, fail, fail_all) ==
  LET loaded == load_data(T, file, username, fail, FALSE).value
      all_data == load_data(T, file, NoUser, fail_all, FALSE).value
      user_entry == find_user(Get(all_data, "users", <<>>), username)
      user_data == IF user_entry # EmptyDict
                   THEN Update(loaded, [is_verified |-> Get(user_entry, "is_verified", FALSE),
                                        username |-> username])
                   ELSE loaded
  IN IF user_entry = EmptyDict /\ username # "admin"
     THEN [response |-> [kind |-> "render", template |-> "404.html", status |-> 404],
           user_entry |-> user_entry, tracked |-> <<>>]
     ELSE IF (user_entry # EmptyDict /\ Get(user_entry, "role", None) = "admin") \/ username = "admin"
     THEN [response |-> [kind |-> "redirect", endpoint |-> "pages.index"],
           user_entry |-> user_entry, tracked |-> <<>>]
     ELSE [response |-> [kind |-> "render", template |-> "index.html", status |-> 200,
                         data |-> user_data, is_public |-> TRUE,
                         current_theme |-> MapGet(Get(user_data, "settings", {}), "theme", DefaultTheme)],
           user_entry |-> user_entry, tracked |-> <<username>>]

\* the usernames of the requested pages
PageUsernames == Usernames \cup {"admin", "ghost"}

\* the User table, and the same with bob promoted to admin
UserTables == {UserRows, [UserRows EXCEPT ![3].role = "admin"]}

InitPortfolio ==
  \E W \in SUBSET Usernames :
    /\ workspaces = WorkspaceRows(W)
    /\ skills = RowsOf(AllSkillRows, W)
    /\ projects = RowsOf(AllProjectRows, W)
    /\ clients = RowsOf(AllClientRows, W)
    /\ messages = RowsOf(AllMessageRows, W)
    /\ services = RowsOf(AllServiceRows, W)
    /\ visitor_logs = RowsOf(AllVisitorLogRows, W)
    /\ notification_settings = RowsOf(AllNotificationRows, W)
    /\ users \in UserTables
    /\ data_json \in InitialFiles
    /\ last = [op |-> "init"]
    /\ ops = 0
    /\ writers = NoWriters

\* fail: the call that raises in load_data(username); fail_all: in load_data()
UserPortfolio ==
  \E username \in PageUsernames, fail \in LoadFailPoints, fail_all \in {"none", "lookup"} :
    /\ ops < MaxOps
    /\ fail = "materialize" => get_workspace_by_username(Tables, username) # EmptyDict
    /\ LET r == user_portfolio(Tables, data_json, username, fail, fail_all)
       IN last' = [op |-> "user_portfolio", username |-> username, fail |-> fail,
                   fail_all |-> fail_all, response |-> r.response,
                   user_entry |-> r.user_entry, tracked |-> r.tracked]
    /\ ops' = ops + 1
    /\ UNCHANGED writers
    /\ UNCHANGED <<workspaces, skills, projects, clients, messages, services,
                   visitor_logs, notification_settings, users, data_json>>

NextPortfolio == UserPortfolio

SpecPortfolio == InitPortfolio /\ [][NextPortfolio]_vars

IsPortfolio == last.op = "user_portfolio"

RedirectHome == [kind |-> "redirect", endpoint |-> "pages.index"]

\* whether the User table gives the requested username the role admin
HasAdminRole == \E i \in DOMAIN users : users[i].username = last.username /\ users[i].role = "admin"

\* C19: a request for the public portfolio page of username 'admin', or of a
\* user whose entry in the loaded users list has role 'admin', is redirected to
\* the home page: the portfolio template is not rendered and no visitor is
\* tracked, whether or not a user entry or a workspace exists for the username.
\* A user with role 'admin' in the User table is never rendered as a portfolio
\* nor tracked, even when the users list could not be loaded.
C19_AdminRedirected ==
  IsPortfolio =>
     /\ last.username = "admin" => (last.response = RedirectHome /\ last.tracked = <<>>)
     /\ (last.user_entry # EmptyDict /\ last.user_entry.role = "admin") =>
          (last.response = RedirectHome /\ last.tracked = <<>>)
     /\ HasAdminRole =>
          /\ last.tracked = <<>>
          /\ last.response.kind = "render" => last.response.template = "404.html"

\* the page of bob, who has role admin and a workspace, redirected to home
C19_Witness ==
  /\ IsPortfolio /\ last.username = "bob" /\ WorkspaceExists("bob")
  /\ last.user_entry # EmptyDict /\ last.user_entry.role = "admin"
  /\ last.response = RedirectHome
  /\ last.tracked = <<>>

\* the page of 'admin' when the users list holds no entry for it
C19_WitnessNoEntry ==
  /\ IsPortfolio /\ last.username = "admin" /\ last.user_entry = EmptyDict
  /\ last.response = RedirectHome

\* whether the trimmed portfolio_owner of the submitted form is the slug of a Workspace row
SlugResolves ==
  /\ "portfolio_owner" \in DOMAIN last.form
  /\ \E i \in DOMAIN workspaces : Word(workspaces[i].slug) = strip(last.form.portfolio_owner)

\* the text flashed by the last contact request, "" when none was
ContactFlash == IF last.response.kind = "redirect" THEN last.response.flashed[1].text ELSE ""

\* whether the last contact request persisted nothing and notified nobody
NothingDone ==
  /\ CreatedRows = <<>> /\ messages = last.messages_before
  /\ ~last.notify_called /\ last.notified = <<>>

\* C21: contact intake runs its stages in the order honeypot, rate limit,
\* required fields, workspace lookup, persistence, notification and stops at the
\* first failing one.  A Message row is created only if the honeypot is empty,
\* the rate limiter allowed the request, the four required fields are non-blank
\* and the portfolio_owner slug resolves to a Workspace; a rate-limit denial or
\* an unresolved slug gives a user-visible rejection with nothing persisted and
\* nobody notified; the rate limiter is not asked behind a filled honeypot, a
\* denial wins over a blank field, a blank field over an unknown slug, and the
\* notification is sent only after the row is committed.
C21_StageOrder ==
  IsContact =>
     /\ CreatedRows # <<>> =>
          ~WebsiteGiven /\ last.rate_ok /\ ~RequiredBlank /\ SlugResolves
     /\ WebsiteGiven => ~last.rate_checked /\ NothingDone
     /\ (~WebsiteGiven /\ ~last.rate_ok) =>
          Rejected /\ ContactFlash = MsgTooMany /\ NothingDone
     /\ (~WebsiteGiven /\ last.rate_ok /\ RequiredBlank) =>
          Rejected /\ ContactFlash = MsgRequired /\ NothingDone
     /\ (~WebsiteGiven /\ last.rate_ok /\ ~RequiredBlank /\ ~SlugResolves) =>
          Rejected /\ ContactFlash = MsgError /\ NothingDone
     /\ last.notify_called => Len(CreatedRows) = 1

\* a denied request whose form also has a blank required field and an unknown owner
C21_Witness ==
  /\ IsContact /\ ~WebsiteGiven /\ ~last.rate_ok
  /\ RequiredBlank
  /\ "portfolio_owner" \in DOMAIN last.form /\ last.form.portfolio_owner = Word("ghost")
  /\ Rejected /\ ContactFlash = MsgTooMany
  /\ NothingDone

\* C22: whenever a contact request ends with the generic failure message shown
\* to the user, no Message row of that request remains persisted.
C22_FailureLeavesNoRow ==
  (IsContact /\ ContactFlash = MsgError) => CreatedRows = <<>>

\* the empty value save_data stores for a portfolio-level field the view lacks
EmptyValueOf(field) ==
  CASE field \in {"title", "description", "photo", "about"} -> ""
    [] field \in {"contact", "social"} -> {}

\* C24: a save_data(view, username) that commits keeps, of what the view does
\* not mention, only the name and the skills: without a 'skills' key the Skill
\* rows are left as they were, without a 'name' key an existing workspace keeps
\* its name; each of title, description, photo, about, contact and social that
\* the view lacks is stored as its empty value ('' or {}), and settings as
\* {'theme': 'luxury-gold'}.
C24_PartialViewSave ==
  [][ (last'.op = "save_data" /\ last'.username # NoUser /\ last'.fail = "none") =>
        LET view == last'.user_data
            u == last'.username
        IN /\ "skills" \notin DOMAIN view => skills' = skills
           /\ \E i \in DOMAIN workspaces' :
                LET row == workspaces'[i]
                IN /\ row.slug = u
                   /\ ("name" \notin DOMAIN view /\ WorkspaceExists(u)) =>
                        row.name = WorkspaceRow(u).name
                   /\ \A f \in {"title", "description", "photo", "about", "contact", "social"} :
                        f \notin DOMAIN view => (f \in DOMAIN row /\ row[f] = EmptyValueOf(f))
                   /\ "settings" \notin DOMAIN view =>
                        row.settings = {<<"theme", "luxury-gold">>}
    ]_vars

\* after a committed save of the title-only view the workspace alice keeps its
\* name and its Skill rows and has lost its other fields
C24_Witness ==
  /\ IsSave /\ last.username = "alice" /\ last.fail = "none"
  /\ last.user_data = ViewPartial
  /\ WorkspaceExists("alice")
  /\ WorkspaceRow("alice").name = "Alice"
  /\ WorkspaceRow("alice").title = "Only a title"
  /\ WorkspaceRow("alice").about = ""
  /\ WorkspaceRow("alice").contact = {}
  /\ WorkspaceRow("alice").settings = {<<"theme", "luxury-gold">>}
  /\ \E i \in DOMAIN skills : skills[i].workspace_id = "alice" /\ skills[i].name = "sql"

(***************************************************************************)
(* Concurrent flat-file saves (src/utils/data.py, save_data_to_json).      *)
(*                                                                         *)
(* Two requests run save_data_to_json against the one document with no     *)
(* lock.  A call is three steps: the read (snapshot, exists, open 'r',     *)
(* json.load), the open for writing (open 'w' truncates the file) and the  *)
(* dump (json.dump and close).  A document being rewritten is Truncated;   *)
(* a dump over bytes another writer put there since the truncation may     *)
(* leave a Corrupt document; json.load of either raises, and the call's    *)
(* except clause ends it without a write.                                  *)
(***************************************************************************)
Writers == {"w1", "w2"}

Truncated == [exists |-> TRUE, truncated |-> TRUE]
Corrupt == [exists |-> TRUE, corrupt |-> TRUE]

\* whether json.load(file) returns
Parses(file) == "content" \in DOMAIN file

\* the views the concurrent calls save
JsonViewsFor(username) ==
  IF username = NoUser THEN GlobalViews ELSE {ViewPartial, ViewEmptySettings}

\* whether a writer other than w holds the file open for writing
OtherOpen(w) == \E o \in Writers \ {w} : writers[o].pc = "open"

InitJson ==
  /\ workspaces = <<>> /\ skills = <<>> /\ projects = <<>> /\ clients = <<>>
  /\ messages = <<>> /\ services = <<>> /\ visitor_logs = <<>>
  /\ notification_settings = <<>>
  /\ users = UserRows
  /\ data_json \in InitialFiles
  /\ writers = [w \in Writers |-> [pc |-> "idle"]]
  /\ last = [op |-> "save_data_to_json", initial |-> data_json, order |-> <<>>, overlap |-> FALSE]
  /\ ops = 0

\* lines 355-366: the snapshot, then the read of the prior document
JsonRead(w) ==
  \E username \in Usernames \cup {NoUser}, auto_backup \in BOOLEAN :
  \E user_data \in JsonViewsFor(username) :
    /\ writers[w].pc = "idle"
    /\ LET call == [username |-> username, user_data |-> user_data, auto_backup |-> auto_backup,
                    backup |-> auto_backup_step(data_json, auto_backup, FALSE),
                    read_at |-> Len(last.order)]
       IN writers' = [writers EXCEPT ![w] =
            IF data_json.exists /\ ~Parses(data_json)
            THEN Update(call, [pc |-> "done", wrote |-> FALSE])
            ELSE Update(call, [pc |-> "read",
                               all_data |-> IF data_json.exists THEN data_json.content
                                            ELSE EmptyDict])]
    /\ last' = [last EXCEPT !.overlap = @ \/ OtherOpen(w)]
    /\ UNCHANGED <<workspaces, skills, projects, clients, messages, services,
                   visitor_logs, notification_settings, users, data_json, ops>>

\* line 375: open('data.json', 'w') truncates the document
JsonOpen(w) ==
  /\ writers[w].pc = "read"
  /\ data_json' = Truncated
  /\ writers' = [writers EXCEPT ![w] = Put(@, "pc", "open")]
  /\ last' = [last EXCEPT !.overlap = @ \/ OtherOpen(w)]
  /\ UNCHANGED <<workspaces, skills, projects, clients, messages, services,
                 visitor_logs, notification_settings, users, ops>>

\* lines 368-376: the merge into what was read, written by json.dump
JsonDump(w) ==
  /\ writers[w].pc = "open"
  /\ LET document == [exists |-> TRUE,
                      content |-> merged_document(writers[w].all_data, writers[w].user_data,
                                                  writers[w].username)]
     IN data_json' \in (IF data_json = Truncated THEN {document} ELSE {document, Corrupt})
  /\ writers' = [writers EXCEPT ![w] = Update(@, [pc |-> "done", wrote |-> TRUE])]
  /\ last' = [last EXCEPT !.order = Append(@, w)]
  /\ UNCHANGED <<workspaces, skills, projects, clients, messages, services,
                 visitor_logs, notification_settings, users, ops>>

NextJson == \E w \in Writers : JsonRead(w) \/ JsonOpen(w) \/ JsonDump(w)

SpecJson == InitJson /\ [][NextJson]_vars

AllDone == \A w \in Writers : writers[w].pc = "done"

\* the document after the call of writer a, then the call of writer b, each run alone
SerialOutcome(a, b) ==
  LET after_a == save_data_to_json(last.initial, writers[a].user_data, writers[a].username,
                                   writers[a].auto_backup, FALSE, FALSE).file
  IN save_data_to_json(after_a, writers[b].user_data, writers[b].username,
                       writers[b].auto_backup, FALSE, FALSE).file

SerialOutcomes == {SerialOutcome("w1", "w2"), SerialOutcome("w2", "w1")}

\* C23 as stated: when two save_data_to_json calls, for the same or for
\* different usernames, interleave their read-modify-write steps, the final
\* document equals the one produced by running the two saves one after the
\* other in some order, so a save for one username never discards a completed
\* concurrent save for another.
C23_Serializable ==
  AllDone => data_json \in SerialOutcomes

\* the writer whose dump came last
LastWriter == last.order[Len(last.order)]

\* whether the final document is what the last writer had read with its own
\* record (for a username) or its own top-level keys (without one) stored in it
LastWriterDocument ==
  LET r == writers[LastWriter]
      final == data_json.content
      read_portfolios == Get(r.all_data, "portfolios", EmptyDict)
  IN /\ Parses(data_json)
     /\ IF r.username # NoUser
        THEN /\ DOMAIN final = DOMAIN r.all_data \cup {"portfolios"}
             /\ DOMAIN final.portfolios = DOMAIN read_portfolios \cup {r.username}
             /\ final.portfolios[r.username] = r.user_data
             /\ \A u \in DOMAIN read_portfolios \ {r.username} :
                  final.portfolios[u] = read_portfolios[u]
             /\ \A k \in DOMAIN r.all_data \ {"portfolios"} : final[k] = r.all_data[k]
        ELSE /\ DOMAIN final = DOMAIN r.all_data \cup DOMAIN r.user_data
             /\ \A k \in DOMAIN r.user_data : final[k] = r.user_data[k]
             /\ \A k \in DOMAIN r.all_data \ DOMAIN r.user_data : final[k] = r.all_data[k]

\* C23 amended: concurrent flat-file saves are last-writer-wins.  When two
\* save_data_to_json calls interleave their read-modify-write steps without
\* overlapping a single file access, the final document is the document the
\* last writer had read with its own record stored in it; when both calls are
\* for the same username this equals the document produced by running the two
\* saves one after the other in some order.
C23_LastWriterWins ==
  (AllDone /\ ~last.overlap) =>
     /\ Len(last.order) = 2
     /\ LastWriterDocument
     /\ (writers["w1"].username = writers["w2"].username /\ writers["w1"].username # NoUser) =>
          data_json \in SerialOutcomes

\* two saves of different views for alice that both read the legacy document
\* before either wrote it
C23_Witness ==
  /\ AllDone /\ ~last.overlap
  /\ writers["w1"].username = "alice" /\ writers["w2"].username = "alice"
  /\ writers["w1"].user_data # writers["w2"].user_data
  /\ writers["w1"].read_at = 0 /\ writers["w2"].read_at = 0
  /\ last.initial.exists
  /\ data_json.content.portfolios["alice"] = writers[LastWriter].user_data
  /\ data_json.content.portfolios["bob"] = BareRecord

\* two saves for different usernames that both read before either wrote: the
\* record of the first writer is gone from the final document
C23_WitnessLostUpdate ==
  /\ AllDone /\ ~last.overlap /\ ~last.initial.exists
  /\ writers["w1"].username = "alice" /\ writers["w2"].username = "bob"
  /\ last.order = <<"w1", "w2">>
  /\ DOMAIN data_json.content.portfolios = {"bob"}

====
